---- MODULE Spec2Model ----
(***************************************************************************)
(* Model of the fixture-fetcher build pipeline: the build orchestrator of  *)
(* src/app/cli.py, the snapshot store of src/backend/storage/snapshot.py,  *)
(* the filters of src/logic/filters.py, the enrichment of                  *)
(* src/logic/fixtures/enrich.py and the build script of scripts/build.py.  *)
(***************************************************************************)
EXTENDS Integers, Sequences, FiniteSets, TLC

(* ------------------------------ bounds -------------------------------- *)

\* longest fixture list the provider returns in the model
MaxFixtures == 3

(* ------------------------------ values -------------------------------- *)

\* Python's None for the optional string fields
NoneVal == "<None>"

\* utc_kickoff: a datetime (date, time) or None
NoKickoff == [date |-> NoneVal, time |-> NoneVal]

Kick(d, t) == [date |-> d, time |-> t]

\* datetime.isoformat()
isoformat(k) == k.date \o "T" \o k.time \o "+00:00"

Fixture(id, comp, code, kick, home, away, venue, status, tv, isHome) ==
    [id |-> id, competition |-> comp, competition_code |-> code,
     matchday |-> 1, utc_kickoff |-> kick, home_team |-> home,
     away_team |-> away, venue |-> venue, status |-> status, tv |-> tv,
     is_home |-> isHome]

F1 == Fixture("1", "Premier League", "PL", Kick("2025-11-12", "15:00:00"),
              "Man United", "Chelsea", "Old Trafford", "SCHEDULED", NoneVal, TRUE)

F2 == Fixture("2", "Premier League", "PL", NoKickoff,
              "Tottenham", "Man United", NoneVal, "TIMED", "Sky Sports", FALSE)

F3 == Fixture("3", "FA Cup", "FA", Kick("2025-11-20", "20:00:00"),
              "Man United", "Leeds", "Old Trafford", "SCHEDULED", NoneVal, TRUE)

F4 == Fixture("4", "Premier League", "PL", Kick("2025-08-16", "12:30:00"),
              "Man United", "Everton", "Old Trafford", "FINISHED", NoneVal, TRUE)

\* the fixtures the provider can return
FixturePool == {F1, F2, F3, F4}

CompCodes == {f.competition_code : f \in FixturePool}

\* the lists fetch_fixtures can return: every match at most once
FetchResults ==
    {s \in UNION {[1..n -> FixturePool] : n \in 0..MaxFixtures} :
        \A i, j \in DOMAIN s : i # j => s[i].id # s[j].id}

(* ------------------------------ filters ------------------------------- *)

IsScheduled(f) == f.status \in {"SCHEDULED", "TIMED"}

IsHome(f) == f.is_home

IsAway(f) == ~f.is_home

IsTelevised(f) == f.tv # NoneVal

\* mutant: the scheduled-only filter also keeps the matches already played
only_scheduled_or_finished(fixtures) ==
    LET Keep(f) == f.status \in {"SCHEDULED", "TIMED", "FINISHED"}
    IN  SelectSeq(fixtures, Keep)

only_scheduled(fixtures) == SelectSeq(fixtures, IsScheduled)

only_home(fixtures) == SelectSeq(fixtures, IsHome)

\* mutant: the away filter also keeps the games that have a broadcaster
only_away_or_televised(fixtures) ==
    LET Keep(f) == ~f.is_home \/ f.tv # NoneVal
    IN  SelectSeq(fixtures, Keep)

only_away(fixtures) == SelectSeq(fixtures, IsAway)

only_televised(fixtures) == SelectSeq(fixtures, IsTelevised)

\* mutant: home_only and away_only together keep the home and the away games
apply_filters_either(fixtures, scheduled_only, home_only, away_only, televised_only) ==
    LET r1 == IF scheduled_only THEN only_scheduled(fixtures) ELSE fixtures
        r3 == IF home_only /\ ~away_only THEN only_home(r1)
              ELSE IF away_only /\ ~home_only THEN only_away(r1) ELSE r1
    IN  IF televised_only THEN only_televised(r3) ELSE r3

apply_filters(fixtures, scheduled_only, home_only, away_only, televised_only) ==
    LET r1 == IF scheduled_only THEN only_scheduled(fixtures) ELSE fixtures
        r2 == IF home_only THEN only_home(r1) ELSE r1
        r3 == IF away_only THEN only_away(r2) ELSE r2
    IN  IF televised_only THEN only_televised(r3) ELSE r3

\* a comp_code argument that is not a string (an int, a list)
NotAString == "<not a str>"

\* an element of the fixtures argument that is no Fixture: it has none of
\* the attributes the filters read
NotAFixture == [id |-> "<object>"]

IsFixture(f) == "competition_code" \in DOMAIN f

\* by_competition(fixtures, comp_code): the exception class that leaves the
\* function ("none": it returns) and the list returned
by_competition(fixtures, comp_code) ==
    LET Matches(f) == f.competition_code = comp_code
    IN  IF comp_code = NoneVal \/ comp_code = NotAString
        THEN [exc |-> "InvalidInputError", fixtures |-> <<>>]
        ELSE IF \E i \in DOMAIN fixtures : ~IsFixture(fixtures[i])
        THEN [exc |-> "DataProcessingError", fixtures |-> <<>>]
        ELSE [exc |-> "none", fixtures |-> SelectSeq(fixtures, Matches)]

(* --------------------------- grouping --------------------------------- *)

\* fixtures_by_comp as the list of its items in insertion order
RECURSIVE GroupInto(_, _)
GroupInto(groups, fixtures) ==
    IF fixtures = <<>> THEN groups
    ELSE LET f == Head(fixtures)
             known == \E i \in DOMAIN groups : groups[i].code = f.competition_code
             next == IF known
                     THEN [i \in DOMAIN groups |->
                             IF groups[i].code = f.competition_code
                             THEN [groups[i] EXCEPT !.fixtures = Append(@, f)]
                             ELSE groups[i]]
                     ELSE Append(groups, [code |-> f.competition_code,
                                          fixtures |-> <<f>>])
         IN  GroupInto(next, Tail(fixtures))

GroupByCompetition(fixtures) == GroupInto(<<>>, fixtures)

(* --------------------------- snapshot store --------------------------- *)

\* x or ""
OrEmpty(x) == IF x = NoneVal THEN "" ELSE x

\* mutant: the snapshot record keeps the day of the kickoff only
_fixture_to_dict_date_only(f) ==
    [f EXCEPT !.utc_kickoff =
        IF f.utc_kickoff # NoKickoff THEN f.utc_kickoff.date ELSE NoneVal]

\* one snapshot record: asdict(fixture) with utc_kickoff as ISO string or None
_fixture_to_dict(f) ==
    [f EXCEPT !.utc_kickoff =
        IF f.utc_kickoff # NoKickoff THEN isoformat(f.utc_kickoff) ELSE NoneVal]

\* mutant: the projection of a snapshot record has venue and tv exchanged
_dict_to_key_fields_swapped(d) ==
    <<OrEmpty(d.utc_kickoff), OrEmpty(d.tv), OrEmpty(d.venue), OrEmpty(d.status)>>

_dict_to_key_fields(d) ==
    <<OrEmpty(d.utc_kickoff), OrEmpty(d.venue), OrEmpty(d.tv), OrEmpty(d.status)>>

\* {f.id: _fixture_to_dict(f) for f in fixtures}: a later fixture with the
\* same id replaces an earlier one
SnapshotOf(fixtures) ==
    LET ids == {fixtures[i].id : i \in DOMAIN fixtures}
        last(id) == CHOOSE i \in DOMAIN fixtures :
                       /\ fixtures[i].id = id
                       /\ \A j \in DOMAIN fixtures : fixtures[j].id = id => j <= i
    IN  [id \in ids |-> _fixture_to_dict(fixtures[last(id)])]

\* a value json.loads returns that is not an object (a list, a string, a
\* number, null): it has no fixture id among its keys and no get method
JsonArray == [k \in {"<array>"} |-> "<array>"]

IsMapping(v) == "<array>" \notin DOMAIN v

\* a snapshot file on disk: absent, unreadable (read_text raises), a torn /
\* undecodable text, or a JSON text with the value it decodes to
NoFile == [exists |-> FALSE, text |-> FALSE, valid |-> FALSE, data |-> <<>>]

UnreadableFile == [exists |-> TRUE, text |-> FALSE, valid |-> FALSE, data |-> <<>>]

TornFile == [exists |-> TRUE, text |-> TRUE, valid |-> FALSE, data |-> <<>>]

JsonFile(data) == [exists |-> TRUE, text |-> TRUE, valid |-> TRUE, data |-> data]

\* save_snapshot(fixtures, path) with the outcome of its I/O:
\* file is the file at path before the call; the result is the file after the
\* call and the exception class that leaves the function ("none": it returns)
save_snapshot(fixtures, file, io) ==
    IF io = "mkdir_fails"
    THEN [file |-> file, exc |-> "OSError"]
    ELSE IF io = "write_fails"
    THEN [file |-> file, exc |-> "DataProcessingError"]
    ELSE IF io = "write_torn"
    THEN [file |-> TornFile, exc |-> "DataProcessingError"]
    ELSE [file |-> JsonFile(SnapshotOf(fixtures)), exc |-> "none"]

SaveOutcomes == {"ok", "mkdir_fails", "write_fails", "write_torn"}

\* load_snapshot(path): the value returned and the exception class that
\* leaves the function ("none": it returns)
load_snapshot(file) ==
    IF ~file.exists THEN [value |-> <<>>, exc |-> "none"]
    ELSE IF ~file.text THEN [value |-> <<>>, exc |-> "OSError"]
    ELSE IF ~file.valid THEN [value |-> <<>>, exc |-> "none"]
    ELSE [value |-> file.data, exc |-> "none"]

\* snapshot.get(f.id) of diff_changes raises AttributeError on a snapshot that
\* is not a mapping, as soon as there is a current fixture to look up
diff_raises(current, snapshot) == current # <<>> /\ ~IsMapping(snapshot)

\* mutant: a fixture the snapshot does not know is compared with an empty
\* record instead of being skipped
diff_changes_counting_new(current, snapshot) ==
    LET curr(i) == <<IF current[i].utc_kickoff # NoKickoff
                     THEN isoformat(current[i].utc_kickoff) ELSE "",
                     OrEmpty(current[i].venue), OrEmpty(current[i].tv),
                     OrEmpty(current[i].status)>>
        prev(i) == IF current[i].id \in DOMAIN snapshot
                   THEN _dict_to_key_fields(snapshot[current[i].id])
                   ELSE <<"", "", "", "">>
        differ(k) == Cardinality({i \in DOMAIN current : curr(i)[k] # prev(i)[k]})
    IN  [time |-> differ(1), venue |-> differ(2), tv |-> differ(3),
         status |-> differ(4)]

diff_changes(current, snapshot) ==
    LET known == {i \in DOMAIN current : current[i].id \in DOMAIN snapshot}
        curr(i) == <<IF current[i].utc_kickoff # NoKickoff
                     THEN isoformat(current[i].utc_kickoff) ELSE "",
                     OrEmpty(current[i].venue), OrEmpty(current[i].tv),
                     OrEmpty(current[i].status)>>
        prev(i) == _dict_to_key_fields(snapshot[current[i].id])
        differ(k) == Cardinality({i \in known : curr(i)[k] # prev(i)[k]})
    IN  [time |-> differ(1), venue |-> differ(2), tv |-> differ(3),
         status |-> differ(4)]

(* ----------------------------- enrichment ----------------------------- *)

\* truthiness of an optional string
Falsy(x) == x \in {NoneVal, ""}

\* (x or "").strip() is non-empty
HasTv(f) == f.tv \notin {NoneVal, "", " "}

CompositeKey(f) == f.utc_kickoff.date \o ":" \o f.home_team \o ":" \o f.away_team

\* one override entry: key, and its value: null, a mapping (tv is NoneVal
\* when the mapping has no tv key) or a scalar
Entry(key, kind, tv) == [key |-> key, kind |-> kind, tv |-> tv]

\* mutant: every applied override is counted, also one that replaces a
\* broadcaster
ApplyEntryCountingAll(st, e) ==
    IF e.kind = "scalar"
    THEN [st EXCEPT !.raised = TRUE]
    ELSE LET tv == IF e.kind = "null" THEN NoneVal ELSE e.tv
             fx == st.fixtures
             byId == {i \in DOMAIN fx : fx[i].id = e.key}
             byComposite == {i \in DOMAIN fx :
                                /\ fx[i].utc_kickoff # NoKickoff
                                /\ CompositeKey(fx[i]) = e.key}
             set(i) == [fixtures |-> [fx EXCEPT ![i].tv = tv],
                        applied |-> st.applied + 1,
                        raised |-> FALSE]
             max(S) == CHOOSE i \in S : \A j \in S : j <= i
             min(S) == CHOOSE i \in S : \A j \in S : i <= j
         IN  IF Falsy(tv) THEN st
             ELSE IF byId # {} THEN set(max(byId))
             ELSE IF byComposite # {} THEN set(min(byComposite))
             ELSE st

\* mutant: the scan for a composite key does not stop at the first match
ApplyEntryLastMatch(st, e) ==
    IF e.kind = "scalar"
    THEN [st EXCEPT !.raised = TRUE]
    ELSE LET tv == IF e.kind = "null" THEN NoneVal ELSE e.tv
             fx == st.fixtures
             byId == {i \in DOMAIN fx : fx[i].id = e.key}
             byComposite == {i \in DOMAIN fx :
                                /\ fx[i].utc_kickoff # NoKickoff
                                /\ CompositeKey(fx[i]) = e.key}
             set(i) == [fixtures |-> [fx EXCEPT ![i].tv = tv],
                        applied |-> st.applied + (IF Falsy(fx[i].tv) THEN 1 ELSE 0),
                        raised |-> FALSE]
             max(S) == CHOOSE i \in S : \A j \in S : j <= i
         IN  IF Falsy(tv) THEN st
             ELSE IF byId # {} THEN set(max(byId))
             ELSE IF byComposite # {} THEN set(max(byComposite))
             ELSE st

\* the body of the loop over data.items() for one entry
ApplyEntry(st, e) ==
    IF e.kind = "scalar"
    THEN [st EXCEPT !.raised = TRUE]
    ELSE LET tv == IF e.kind = "null" THEN NoneVal ELSE e.tv
             fx == st.fixtures
             byId == {i \in DOMAIN fx : fx[i].id = e.key}
             byComposite == {i \in DOMAIN fx :
                                /\ fx[i].utc_kickoff # NoKickoff
                                /\ CompositeKey(fx[i]) = e.key}
             set(i) == [fixtures |-> [fx EXCEPT ![i].tv = tv],
                        applied |-> st.applied + (IF Falsy(fx[i].tv) THEN 1 ELSE 0),
                        raised |-> FALSE]
             max(S) == CHOOSE i \in S : \A j \in S : j <= i
             min(S) == CHOOSE i \in S : \A j \in S : i <= j
         IN  IF Falsy(tv) THEN st
             ELSE IF byId # {} THEN set(max(byId))
             ELSE IF byComposite # {} THEN set(min(byComposite))
             ELSE st

RECURSIVE ApplyEntries(_, _)
ApplyEntries(st, entries) ==
    IF entries = <<>> \/ st.raised THEN st
    ELSE ApplyEntries(ApplyEntry(st, Head(entries)), Tail(entries))

\* mutant: a missing override file is an error
apply_overrides_strict(fixtures, overrides) ==
    IF ~overrides.given \/ ~overrides.exists \/ ~overrides.mapping
    THEN [fixtures |-> fixtures, applied |-> 0, raised |-> TRUE]
    ELSE ApplyEntries([fixtures |-> fixtures, applied |-> 0, raised |-> FALSE],
                      overrides.entries)

\* apply_overrides(fixtures, overrides_path): the fixtures after the call,
\* the count returned, and whether the call raised
apply_overrides(fixtures, overrides) ==
    IF ~overrides.given \/ ~overrides.exists
    THEN [fixtures |-> fixtures, applied |-> 0, raised |-> FALSE]
    ELSE IF ~overrides.mapping
    THEN [fixtures |-> fixtures, applied |-> 0, raised |-> TRUE]
    ELSE ApplyEntries([fixtures |-> fixtures, applied |-> 0, raised |-> FALSE],
                      overrides.entries)

\* mutant: the enrichment keeps only the fixtures that have a broadcaster
enrich_all_televised(fixtures, overrides) ==
    LET before_tv == Cardinality({i \in DOMAIN fixtures : HasTv(fixtures[i])})
        r == apply_overrides(fixtures, overrides)
        kept == SelectSeq(r.fixtures, HasTv)
    IN  [fixtures |-> kept,
         stats |-> [tv_overrides_applied |-> IF r.raised THEN 0 ELSE r.applied,
                    tv_before |-> before_tv, tv_after |-> Len(kept)]]

\* mutant: the fixtures with a broadcaster are first counted after the
\* overrides were applied
enrich_all_before_counted_late(fixtures, overrides) ==
    LET r == IF overrides.given
             THEN apply_overrides(fixtures, overrides)
             ELSE [fixtures |-> fixtures, applied |-> 0, raised |-> FALSE]
        applied == IF r.raised THEN 0 ELSE r.applied
        after_tv == Cardinality({i \in DOMAIN r.fixtures : HasTv(r.fixtures[i])})
    IN  [fixtures |-> r.fixtures,
         stats |-> [tv_overrides_applied |-> applied, tv_before |-> after_tv,
                    tv_after |-> after_tv]]

\* enrich_all(fixtures, overrides_path): the fixtures after the call and the
\* dict returned
enrich_all(fixtures, overrides) ==
    LET before_tv == Cardinality({i \in DOMAIN fixtures : HasTv(fixtures[i])})
        r == IF overrides.given
             THEN apply_overrides(fixtures, overrides)
             ELSE [fixtures |-> fixtures, applied |-> 0, raised |-> FALSE]
        applied == IF r.raised THEN 0 ELSE r.applied
        after_tv == Cardinality({i \in DOMAIN r.fixtures : HasTv(r.fixtures[i])})
    IN  [fixtures |-> r.fixtures,
         stats |-> [tv_overrides_applied |-> applied, tv_before |-> before_tv,
                    tv_after |-> after_tv]]

\* the overrides_path argument: None, the path of no file, the path of a
\* YAML document that is not a mapping, or of a mapping with its items in
\* file order (an empty document loads as None, which or {} makes the empty
\* mapping)
NoPath == [given |-> FALSE, exists |-> FALSE, mapping |-> FALSE, entries |-> <<>>]

NoOverrides == [given |-> TRUE, exists |-> FALSE, mapping |-> FALSE, entries |-> <<>>]

NotAMapping == [given |-> TRUE, exists |-> TRUE, mapping |-> FALSE, entries |-> <<>>]

OverridesFile(entries) ==
    [given |-> TRUE, exists |-> TRUE, mapping |-> TRUE, entries |-> entries]

\* the override files of the model
OverrideFiles ==
    { NoOverrides,
      OverridesFile(<<Entry("1", "map", "BBC One"),
                      Entry("2025-11-20:Man United:Leeds", "map", "ITV1"),
                      Entry("2", "map", "TNT Sports")>>),
      OverridesFile(<<Entry("2", "map", "Amazon Prime"),
                      Entry("3", "scalar", NoneVal)>>) }

(* ----------------------------- team cache ----------------------------- *)

\* the league cache as yaml.safe_load returns it: league -> teams, in file order
TeamsData ==
    << [league |-> "Broken League", is_dict |-> FALSE, teams |-> {}],
       [league |-> "Championship", is_dict |-> TRUE,
        teams |-> {[name |-> "Leeds United FC", has_short |-> FALSE,
                    short_name |-> NoneVal]}],
       [league |-> "Premier League", is_dict |-> TRUE,
        teams |-> {[name |-> "Manchester United FC", has_short |-> TRUE,
                    short_name |-> "Man United"]}] >>

\* states of the cache file at CACHE_PATH
CacheStates == {"ok", "missing", "invalid_yaml", "unreadable", "empty", "not_mapping"}

\* get_team_info(team_name) on a cache file in the given state: the exception
\* class that leaves the function ("none": it returns league, short_name)
get_team_info(team_name, cache) ==
    LET hits == {i \in DOMAIN TeamsData :
                    /\ TeamsData[i].is_dict
                    /\ \E t \in TeamsData[i].teams : t.name = team_name}
        first == CHOOSE i \in hits : \A j \in hits : i <= j
        info == CHOOSE t \in TeamsData[first].teams : t.name = team_name
        fail(exc) == [exc |-> exc, league |-> NoneVal, short_name |-> NoneVal]
    IN  IF cache \in {"missing", "invalid_yaml"} THEN fail("TeamsCacheError")
        ELSE IF cache = "unreadable" THEN fail("PermissionError")
        ELSE IF cache = "not_mapping" THEN fail("AttributeError")
        ELSE IF cache = "empty" \/ hits = {} THEN fail("TeamNotFoundError")
        ELSE [exc |-> "none", league |-> TeamsData[first].league,
              short_name |-> IF info.has_short THEN info.short_name ELSE team_name]

\* str(e) of the exceptions build records
ErrorMessage(exc, team) ==
    IF exc = "TeamNotFoundError" THEN "Team '" \o team \o "' not found in cache"
    ELSE IF exc = "TeamsCacheError" THEN "Error loading teams cache from data/cache/teams.yaml"
    ELSE "Network error while fetching fixtures for team '" \o team \o "'"

(* ------------------------------- state -------------------------------- *)

VARIABLES
    pc,               \* position in build / in the calling script
    caller,           \* "api": build called directly; "build.py",
                      \* "build_calendars.py": the scripts
    args,             \* the arguments of the build call
    teamsCache,       \* state of the cache file at CACHE_PATH
    overridesFile,    \* the file at TV_OVERRIDES_PATH
    snapshots,        \* snapshot files, by competition code of the team's directory
    calendars,        \* calendar files, by competition code of the team's directory
    short_name,       \* build's locals
    fetched,          \* the list fetch_fixtures returned
    fixtures_by_comp,
    ci,               \* position of the loop over fixtures_by_comp.items()
    comp_fixtures,
    prev,
    stats,
    filtered_fixtures,
    changes,
    successful,
    failed,
    result,           \* the dict build returned (valid when returned is TRUE)
    returned,
    raised,           \* the exception class that left build ("none": none did)
    manifest,         \* the script's generate_manifest: "none", "generated", "failed"
    exitCode,         \* the script's exit code (-1: the process has not exited)
    calls,            \* the collaborators' calls of this build, in order
    snapshotsBefore,  \* the snapshot files when build was called
    fn,               \* the function called on its own ("none": none yet)
    arg,              \* its arguments, as they were when it was called
    ret,              \* what it returned, raised and left in its arguments
    firstRun          \* what the build before this one fetched and completed

\* the variables that no step of one build call changes
unit == <<fn, arg, ret, firstRun>>

vars == <<pc, caller, args, teamsCache, overridesFile, snapshots, calendars,
          short_name, fetched, fixtures_by_comp, ci, comp_fixtures, prev, stats,
          filtered_fixtures, changes, successful, failed, result, returned,
          raised, manifest, exitCode, calls, snapshotsBefore, unit>>

disk == <<teamsCache, overridesFile, snapshots, calendars>>

compLocals == <<comp_fixtures, prev, stats, filtered_fixtures, changes>>

teamLocals == <<short_name, fetched, fixtures_by_comp, ci>>

outcome == <<result, returned, raised, manifest, exitCode>>

\* a calendar file: absent, torn, or the fixtures rendered into it
NoCalendar == [exists |-> FALSE, valid |-> FALSE, fixtures |-> <<>>]

TornCalendar == [exists |-> TRUE, valid |-> FALSE, fixtures |-> <<>>]

CalendarFile(fixtures) == [exists |-> TRUE, valid |-> TRUE, fixtures |-> fixtures]

NoStats == [tv_overrides_applied |-> 0, tv_before |-> 0, tv_after |-> 0]

NoChanges == [time |-> 0, venue |-> 0, tv |-> 0, status |-> 0]

NoResult == [successful |-> <<>>, failed |-> <<>>, total |-> 0]

\* no build ran before this one
NoRun == [ran |-> FALSE, fetched |-> <<>>, completed |-> {},
          snapshots |-> [c \in CompCodes |-> NoFile]]

\* one call of a collaborator: the operation, the competition it is for and
\* the exception class that left it ("none": it returned)
Call(op, comp, exc) == [op |-> op, comp |-> comp, exc |-> exc]

\* build's parameters that the model varies
BuildArgs(team, refresh_cache, home_only, away_only, televised_only, summarise) ==
    [team |-> team, refresh_cache |-> refresh_cache, home_only |-> home_only,
     away_only |-> away_only, televised_only |-> televised_only,
     summarise |-> summarise]

\* the teams build is called with: none, empty, a cached team, an unknown one
TeamInputs == {NoneVal, "", "Manchester United FC", "Unknown FC"}

\* the snapshot files a previous build can have left
InitialSnapshots ==
    { [c \in CompCodes |-> NoFile],
      [c \in CompCodes |->
          IF c = "PL"
          THEN JsonFile(SnapshotOf(<<[F1 EXCEPT !.venue = "Wembley"], F2>>))
          ELSE IF c = "FA" THEN TornFile ELSE NoFile],
      [c \in CompCodes |->
          IF c = "PL" THEN JsonFile(JsonArray)
          ELSE IF c = "FA" THEN UnreadableFile ELSE NoFile] }

Init ==
    /\ pc = "idle"
    /\ caller = "none"
    /\ args = BuildArgs(NoneVal, FALSE, FALSE, FALSE, FALSE, TRUE)
    /\ teamsCache \in CacheStates
    /\ overridesFile \in OverrideFiles
    /\ snapshots \in InitialSnapshots
    /\ calendars = [c \in CompCodes |-> NoCalendar]
    /\ short_name = NoneVal
    /\ fetched = <<>>
    /\ fixtures_by_comp = <<>>
    /\ ci = 1
    /\ comp_fixtures = <<>>
    /\ prev = <<>>
    /\ stats = NoStats
    /\ filtered_fixtures = <<>>
    /\ changes = NoChanges
    /\ successful = <<>>
    /\ failed = <<>>
    /\ result = NoResult
    /\ returned = FALSE
    /\ raised = "none"
    /\ manifest = "none"
    /\ exitCode = -1
    /\ calls = <<>>
    /\ snapshotsBefore = snapshots
    /\ fn = "none"
    /\ arg = <<>>
    /\ ret = <<>>
    /\ firstRun = NoRun

(* --------------------------- build: entry ----------------------------- *)

\* build(...) is called by who with the arguments a: the locals are fresh
Enter(who, a) ==
    /\ caller' = who
    /\ args' = a
    /\ pc' = "mkdir"
    /\ UNCHANGED <<disk, teamLocals, compLocals, successful, failed, outcome, calls,
                   snapshotsBefore, unit>>

\* the combinations of home_only, away_only, televised_only and summarise
\* build is called with
FlagInputs ==
    { <<FALSE, FALSE, FALSE, TRUE>>, <<TRUE, FALSE, FALSE, TRUE>>,
      <<FALSE, TRUE, TRUE, TRUE>>, <<TRUE, TRUE, FALSE, FALSE>>,
      <<FALSE, FALSE, TRUE, FALSE>> }

\* a direct call of build, as the tests and the shell make it
BuildCall ==
    /\ pc = "idle"
    /\ \E team \in TeamInputs, refresh_cache \in BOOLEAN, flags \in FlagInputs :
        Enter("api", BuildArgs(team, refresh_cache, flags[1], flags[2], flags[3],
                               flags[4]))

\* output.mkdir(parents=True, exist_ok=True)
OutputMkdir ==
    /\ pc = "mkdir"
    /\ \E exc \in {"none", "OSError"} :
        /\ calls' = Append(calls, Call("mkdir", "", exc))
        /\ raised' = exc
        /\ pc' = IF exc = "none" THEN "refresh" ELSE "raised"
    /\ UNCHANGED <<caller, args, disk, teamLocals, compLocals, successful, failed,
                   result, returned, manifest, exitCode, snapshotsBefore, unit>>

\* mutant: the team cache is refreshed on every build
RefreshTeamCacheAlways ==
    /\ pc = "refresh"
    /\ \E io \in {"written", "no_teams", "raises"} :
        LET exc == IF io = "raises" THEN "ConnectionError" ELSE "none"
        IN  /\ calls' = Append(calls, Call("refresh_team_cache", "", exc))
            /\ teamsCache' = IF io = "written" THEN "ok" ELSE teamsCache
            /\ raised' = exc
            /\ pc' = IF exc = "none" THEN "check_team" ELSE "raised"
    /\ UNCHANGED <<caller, args, overridesFile, snapshots, calendars, teamLocals,
                   compLocals, successful, failed, result, returned, manifest,
                   exitCode, snapshotsBefore, unit>>

\* repo = FootballDataRepository(); the refresh of the team cache when asked
\* for or when the cache file is missing.  The refresh writes the cache,
\* fetches no team and leaves the file alone, or raises.
RefreshTeamCache ==
    /\ pc = "refresh"
    /\ IF args.refresh_cache \/ teamsCache = "missing"
       THEN \E io \in {"written", "no_teams", "raises"} :
                LET exc == IF io = "raises" THEN "ConnectionError" ELSE "none"
                IN  /\ calls' = Append(calls, Call("refresh_team_cache", "", exc))
                    /\ teamsCache' = IF io = "written" THEN "ok" ELSE teamsCache
                    /\ raised' = exc
                    /\ pc' = IF exc = "none" THEN "check_team" ELSE "raised"
       ELSE /\ pc' = "check_team"
            /\ UNCHANGED <<calls, teamsCache, raised>>
    /\ UNCHANGED <<caller, args, overridesFile, snapshots, calendars, teamLocals,
                   compLocals, successful, failed, result, returned, manifest,
                   exitCode, snapshotsBefore, unit>>

\* if not team: raise InvalidInputError; teams = [team]; successful = failed = []
CheckTeam ==
    /\ pc = "check_team"
    /\ IF Falsy(args.team)
       THEN pc' = "raised" /\ raised' = "InvalidInputError"
       ELSE pc' = "lookup" /\ raised' = raised
    /\ successful' = <<>>
    /\ failed' = <<>>
    /\ UNCHANGED <<caller, args, disk, teamLocals, compLocals, result, returned,
                   manifest, exitCode, calls, snapshotsBefore, unit>>

\* league, short_name = get_team_info(t), and the handler of its two errors
LookupTeam ==
    /\ pc = "lookup"
    /\ LET r == get_team_info(args.team, teamsCache)
       IN  /\ calls' = Append(calls, Call("get_team_info", "", r.exc))
           /\ IF r.exc = "none"
              THEN /\ short_name' = r.short_name
                   /\ pc' = "fetch"
                   /\ UNCHANGED <<failed, raised>>
              ELSE IF r.exc \in {"TeamNotFoundError", "TeamsCacheError"}
              THEN /\ failed' = Append(failed,
                                       <<args.team, ErrorMessage(r.exc, args.team)>>)
                   /\ pc' = "return"
                   /\ UNCHANGED <<short_name, raised>>
              ELSE /\ raised' = r.exc
                   /\ pc' = "raised"
                   /\ UNCHANGED <<short_name, failed>>
    /\ UNCHANGED <<caller, args, disk, fetched, fixtures_by_comp, ci, compLocals,
                   successful, result, returned, manifest, exitCode, snapshotsBefore, unit>>

\* mutant: a failed fetch is tried again instead of being recorded
FetchFixturesRetrying ==
    /\ pc = "fetch"
    /\ \/ \E list \in FetchResults :
            LET fixtures == apply_filters(list, TRUE, FALSE, FALSE, FALSE)
                groups == GroupByCompetition(fixtures)
            IN  /\ calls' = Append(calls, Call("fetch_fixtures", "", "none"))
                /\ fetched' = list
                /\ fixtures_by_comp' = groups
                /\ ci' = 1
                /\ pc' = IF groups = <<>> THEN "return" ELSE "load"
                /\ failed' = failed
       \/ /\ calls' = Append(calls, Call("fetch_fixtures", "", "ConnectionError"))
          /\ pc' = "fetch"
          /\ UNCHANGED <<failed, fetched, fixtures_by_comp, ci>>
    /\ UNCHANGED <<caller, args, disk, short_name, compLocals, successful, outcome,
                   snapshotsBefore, unit>>

\* fixtures = repo.fetch_fixtures(t, comps, season), the scheduled-only
\* filter and the grouping by competition_code; any exception is recorded
\* as the team's failure
FetchFixtures ==
    /\ pc = "fetch"
    /\ \/ \E list \in FetchResults :
            LET fixtures == apply_filters(list, TRUE, FALSE, FALSE, FALSE)
                groups == GroupByCompetition(fixtures)
            IN  /\ calls' = Append(calls, Call("fetch_fixtures", "", "none"))
                /\ fetched' = list
                /\ fixtures_by_comp' = groups
                /\ ci' = 1
                /\ pc' = IF groups = <<>> THEN "return" ELSE "load"
                /\ failed' = failed
       \/ /\ calls' = Append(calls, Call("fetch_fixtures", "", "ConnectionError"))
          /\ failed' = Append(failed, <<short_name,
                                        ErrorMessage("ConnectionError", args.team)>>)
          /\ pc' = "return"
          /\ UNCHANGED <<fetched, fixtures_by_comp, ci>>
    /\ UNCHANGED <<caller, args, disk, short_name, compLocals, successful, outcome,
                   snapshotsBefore, unit>>

(* ---------------------- build: one competition group ------------------ *)

comp_code == fixtures_by_comp[ci].code

\* the end of one pass of the loop over fixtures_by_comp.items()
NextGroup ==
    /\ ci' = ci + 1
    /\ pc' = IF ci + 1 > Len(fixtures_by_comp) THEN "return" ELSE "load"
    /\ failed' = failed

\* an exception in the competition block: it is wrapped in CalendarError,
\* which leaves the loop over the groups and is caught by the handler of the
\* team's try block
CompetitionFailed ==
    /\ failed' = Append(failed, <<short_name, comp_code>>)
    /\ pc' = "return"
    /\ ci' = ci

\* comp_name, the slugs, snap_path, prev = load_snapshot(snap_path)
LoadSnapshot ==
    /\ pc = "load"
    /\ LET r == load_snapshot(snapshots[comp_code])
       IN  /\ calls' = Append(calls, Call("load_snapshot", comp_code, r.exc))
           /\ IF r.exc = "none"
              THEN /\ comp_fixtures' = fixtures_by_comp[ci].fixtures
                   /\ prev' = r.value
                   /\ pc' = "enrich"
                   /\ UNCHANGED <<failed, ci>>
              ELSE /\ CompetitionFailed
                   /\ UNCHANGED <<comp_fixtures, prev>>
    /\ UNCHANGED <<caller, args, disk, short_name, fetched, fixtures_by_comp, stats,
                   filtered_fixtures, changes, successful, outcome, snapshotsBefore,
                   unit>>

\* stats = enrich_all(comp_fixtures, overrides_path=overrides)
EnrichAll ==
    /\ pc = "enrich"
    /\ LET r == enrich_all(comp_fixtures, overridesFile)
       IN  /\ comp_fixtures' = r.fixtures
           /\ stats' = r.stats
    /\ calls' = Append(calls, Call("enrich_all", comp_code, "none"))
    /\ pc' = "filter"
    /\ UNCHANGED <<caller, args, disk, teamLocals, prev, filtered_fixtures, changes,
                   successful, failed, outcome, snapshotsBefore, unit>>

\* filtered_fixtures = comp_fixtures[:] and the three optional filters
FilterFixtures ==
    /\ pc = "filter"
    /\ filtered_fixtures' =
          LET r1 == IF args.home_only THEN only_home(comp_fixtures) ELSE comp_fixtures
              r2 == IF args.away_only THEN only_away(r1) ELSE r1
          IN  IF args.televised_only THEN only_televised(r2) ELSE r2
    /\ pc' = "write"
    /\ UNCHANGED <<caller, args, disk, teamLocals, comp_fixtures, prev, stats,
                   changes, successful, failed, outcome, calls, snapshotsBefore, unit>>

\* mutant: the snapshot is overwritten before the calendar is written
WriteCalendarAfterSnapshot ==
    /\ pc = "write"
    /\ snapshots' = [snapshots EXCEPT ![comp_code] =
                         JsonFile(SnapshotOf(comp_fixtures))]
    /\ \E io \in {"ok", "fails", "torn"} :
        IF io = "ok"
        THEN /\ calls' = Append(calls, Call("write", comp_code, "none"))
             /\ calendars' = [calendars EXCEPT ![comp_code] =
                                  CalendarFile(filtered_fixtures)]
             /\ successful' = Append(successful, <<short_name, comp_code>>)
             /\ pc' = "summarise"
             /\ UNCHANGED <<failed, ci>>
        ELSE /\ calls' = Append(calls, Call("write", comp_code, "ICSWriteError"))
             /\ calendars' = IF io = "torn"
                             THEN [calendars EXCEPT ![comp_code] = TornCalendar]
                             ELSE calendars
             /\ successful' = successful
             /\ CompetitionFailed
    /\ UNCHANGED <<caller, args, teamsCache, overridesFile, short_name,
                   fetched, fixtures_by_comp, compLocals, outcome, snapshotsBefore, unit>>

\* team_output_dir.mkdir, ICSWriter(filtered_fixtures).write(...) and
\* successful.append((short_name, comp_code)); the write can fail before it
\* touches the file or after it truncated it
WriteCalendar ==
    /\ pc = "write"
    /\ \E io \in {"ok", "fails", "torn"} :
        IF io = "ok"
        THEN /\ calls' = Append(calls, Call("write", comp_code, "none"))
             /\ calendars' = [calendars EXCEPT ![comp_code] =
                                  CalendarFile(filtered_fixtures)]
             /\ successful' = Append(successful, <<short_name, comp_code>>)
             /\ pc' = "summarise"
             /\ UNCHANGED <<failed, ci>>
        ELSE /\ calls' = Append(calls, Call("write", comp_code, "ICSWriteError"))
             /\ calendars' = IF io = "torn"
                             THEN [calendars EXCEPT ![comp_code] = TornCalendar]
                             ELSE calendars
             /\ successful' = successful
             /\ CompetitionFailed
    /\ UNCHANGED <<caller, args, teamsCache, overridesFile, snapshots, short_name,
                   fetched, fixtures_by_comp, compLocals, outcome, snapshotsBefore, unit>>

\* if summarise: changes = diff_changes(comp_fixtures, prev); print(...)
Summarise ==
    /\ pc = "summarise"
    /\ IF ~args.summarise
       THEN /\ pc' = "save"
            /\ UNCHANGED <<changes, calls, failed, ci>>
       ELSE IF diff_raises(comp_fixtures, prev)
       THEN /\ calls' = Append(calls, Call("diff_changes", comp_code, "AttributeError"))
            /\ changes' = changes
            /\ CompetitionFailed
       ELSE /\ changes' = diff_changes(comp_fixtures, prev)
            /\ calls' = Append(calls, Call("diff_changes", comp_code, "none"))
            /\ pc' = "save"
            /\ UNCHANGED <<failed, ci>>
    /\ UNCHANGED <<caller, args, disk, short_name, fetched, fixtures_by_comp,
                   comp_fixtures, prev, stats, filtered_fixtures, successful, outcome,
                   snapshotsBefore, unit>>

\* mutant: the snapshot is saved of the fixtures that went to the calendar
SaveSnapshotFiltered ==
    /\ pc = "save"
    /\ \E io \in SaveOutcomes :
        LET r == save_snapshot(filtered_fixtures, snapshots[comp_code], io)
        IN  /\ calls' = Append(calls, Call("save_snapshot", comp_code, r.exc))
            /\ snapshots' = [snapshots EXCEPT ![comp_code] = r.file]
            /\ IF r.exc = "none" THEN NextGroup ELSE CompetitionFailed
    /\ UNCHANGED <<caller, args, teamsCache, overridesFile, calendars, short_name,
                   fetched, fixtures_by_comp, compLocals, successful, outcome,
                   snapshotsBefore, unit>>

\* mutant: the snapshot is saved of the fixtures as they were fetched
SaveSnapshotAsFetched ==
    /\ pc = "save"
    /\ \E io \in SaveOutcomes :
        LET r == save_snapshot(fixtures_by_comp[ci].fixtures, snapshots[comp_code], io)
        IN  /\ calls' = Append(calls, Call("save_snapshot", comp_code, r.exc))
            /\ snapshots' = [snapshots EXCEPT ![comp_code] = r.file]
            /\ IF r.exc = "none" THEN NextGroup ELSE CompetitionFailed
    /\ UNCHANGED <<caller, args, teamsCache, overridesFile, calendars, short_name,
                   fetched, fixtures_by_comp, compLocals, successful, outcome,
                   snapshotsBefore, unit>>

\* save_snapshot(comp_fixtures, snap_path), the last statement of the block
SaveSnapshot ==
    /\ pc = "save"
    /\ \E io \in SaveOutcomes :
        LET r == save_snapshot(comp_fixtures, snapshots[comp_code], io)
        IN  /\ calls' = Append(calls, Call("save_snapshot", comp_code, r.exc))
            /\ snapshots' = [snapshots EXCEPT ![comp_code] = r.file]
            /\ IF r.exc = "none" THEN NextGroup ELSE CompetitionFailed
    /\ UNCHANGED <<caller, args, teamsCache, overridesFile, calendars, short_name,
                   fetched, fixtures_by_comp, compLocals, successful, outcome,
                   snapshotsBefore, unit>>

\* return {"successful": successful, "failed": failed, "total": len(teams)}
Return ==
    /\ pc = "return"
    /\ result' = [successful |-> successful, failed |-> failed, total |-> 1]
    /\ returned' = TRUE
    /\ pc' = "done"
    /\ UNCHANGED <<caller, args, disk, teamLocals, compLocals, successful, failed,
                   raised, manifest, exitCode, calls, snapshotsBefore, unit>>

(* ------------------------------ scripts ------------------------------- *)

\* scripts/build.py: build(team="Manchester United FC", competitions=["PL"], ...)
ScriptBuild ==
    /\ pc = "idle"
    /\ Enter("build.py",
             BuildArgs("Manchester United FC", FALSE, FALSE, FALSE, FALSE, TRUE))

\* mutant: the script fails as soon as one failure was recorded
ScriptExitOnAnyFailure ==
    /\ pc = "done"
    /\ caller = "build.py"
    /\ IF result["successful"] # <<>> /\ result["failed"] = <<>>
       THEN /\ manifest' \in {"generated", "failed"}
            /\ exitCode' = 0
       ELSE /\ manifest' = manifest
            /\ exitCode' = 1
    /\ pc' = "exited"
    /\ UNCHANGED <<caller, args, disk, teamLocals, compLocals, successful, failed,
                   result, returned, raised, calls, snapshotsBefore, unit>>

\* mutant: the script fails only when a failure was recorded
ScriptExitZeroUnlessFailed ==
    /\ pc = "done"
    /\ caller = "build.py"
    /\ IF result["failed"] = <<>>
       THEN /\ manifest' \in {"generated", "failed"}
            /\ exitCode' = 0
       ELSE /\ manifest' = manifest
            /\ exitCode' = 1
    /\ pc' = "exited"
    /\ UNCHANGED <<caller, args, disk, teamLocals, compLocals, successful, failed,
                   result, returned, raised, calls, snapshotsBefore, unit>>

\* the script after build returned: the report, generate_manifest (which may
\* fail) and sys.exit
ScriptExit ==
    /\ pc = "done"
    /\ caller = "build.py"
    /\ IF result["successful"] # <<>>
       THEN /\ manifest' \in {"generated", "failed"}
            /\ exitCode' = 0
       ELSE /\ manifest' = manifest
            /\ exitCode' = 1
    /\ pc' = "exited"
    /\ UNCHANGED <<caller, args, disk, teamLocals, compLocals, successful, failed,
                   result, returned, raised, calls, snapshotsBefore, unit>>

\* an exception that leaves build ends the script with a traceback, status 1
ScriptCrash ==
    /\ pc = "raised"
    /\ caller \in {"build.py", "build_calendars.py"}
    /\ exitCode' = 1
    /\ pc' = "exited"
    /\ UNCHANGED <<caller, args, disk, teamLocals, compLocals, successful, failed,
                   result, returned, raised, manifest, calls, snapshotsBefore, unit>>

\* scripts/build_calendars.py: build(teams=teams, ...) names a parameter
\* build does not have, so the call raises TypeError before build's body runs
ScriptBuildCalendars ==
    /\ pc = "idle"
    /\ caller' = "build_calendars.py"
    /\ raised' = "TypeError"
    /\ pc' = "raised"
    /\ UNCHANGED <<args, disk, teamLocals, compLocals, successful, failed, result,
                   returned, manifest, exitCode, calls, snapshotsBefore, unit>>

Next ==
    \/ BuildCall
    \/ ScriptBuild
    \/ ScriptBuildCalendars
    \/ OutputMkdir
    \/ RefreshTeamCache
    \/ CheckTeam
    \/ LookupTeam
    \/ FetchFixtures
    \/ LoadSnapshot
    \/ EnrichAll
    \/ FilterFixtures
    \/ WriteCalendar
    \/ Summarise
    \/ SaveSnapshot
    \/ Return
    \/ ScriptExit
    \/ ScriptCrash

Spec == Init /\ [][Next]_vars

(* --------------------- the functions on their own --------------------- *)

\* longest list of entries of an override file in the checks of
\* apply_overrides and enrich_all
MaxEntries == 2

\* no build is running: build's variables keep their initial values
buildVars == <<pc, caller, args, disk, teamLocals, compLocals, successful, failed,
               outcome, calls, snapshotsBefore, firstRun>>

NoBuild ==
    /\ pc = "unit"
    /\ caller = "none"
    /\ args = BuildArgs(NoneVal, FALSE, FALSE, FALSE, FALSE, TRUE)
    /\ teamsCache = "ok"
    /\ overridesFile = NoOverrides
    /\ snapshots = [c \in CompCodes |-> NoFile]
    /\ calendars = [c \in CompCodes |-> NoCalendar]
    /\ short_name = NoneVal
    /\ fetched = <<>>
    /\ fixtures_by_comp = <<>>
    /\ ci = 1
    /\ comp_fixtures = <<>>
    /\ prev = <<>>
    /\ stats = NoStats
    /\ filtered_fixtures = <<>>
    /\ changes = NoChanges
    /\ successful = <<>>
    /\ failed = <<>>
    /\ result = NoResult
    /\ returned = FALSE
    /\ raised = "none"
    /\ manifest = "none"
    /\ exitCode = -1
    /\ calls = <<>>
    /\ snapshotsBefore = snapshots
    /\ fn = "none"
    /\ ret = <<>>
    /\ firstRun = NoRun

\* the lists of fixtures of a pool in which every id occurs at most once
ListsOf(pool) ==
    {s \in UNION {[1..n -> pool] : n \in 0..MaxFixtures} :
        \A i, j \in DOMAIN s : i # j => s[i].id # s[j].id}

\* a second match of the same day between the same teams, with an empty tv
F5 == Fixture("5", "Premier League", "PL", Kick("2025-11-12", "19:45:00"),
              "Man United", "Chelsea", "Old Trafford", "SCHEDULED", "", TRUE)

\* a match whose id reads like the composite key of F1 and F5
F6 == Fixture("2025-11-12:Man United:Chelsea", "Premier League", "PL",
              Kick("2025-12-01", "20:00:00"), "Arsenal", "Man United", NoneVal,
              "TIMED", "Sky Sports", FALSE)

EnrichFixtures == {F1, F2, F5, F6}

\* the keys and the values of the override entries
OverrideKeys == {"1", "2", "2025-11-12:Man United:Chelsea"}

OverrideValues ==
    { [kind |-> "null", tv |-> NoneVal], [kind |-> "map", tv |-> NoneVal],
      [kind |-> "map", tv |-> ""], [kind |-> "map", tv |-> "BBC One"],
      [kind |-> "map", tv |-> "ITV1"], [kind |-> "map", tv |-> " "],
      [kind |-> "scalar", tv |-> NoneVal] }

OverrideEntries == {Entry(k, v.kind, v.tv) : k \in OverrideKeys, v \in OverrideValues}

\* the items of a YAML mapping: no key twice
EntryLists ==
    {s \in UNION {[1..n -> OverrideEntries] : n \in 0..MaxEntries} :
        \A i, j \in DOMAIN s : i # j => s[i].key # s[j].key}

EnrichFiles == {NoPath, NoOverrides, NotAMapping} \cup {OverridesFile(es) : es \in EntryLists}

EnrichInit ==
    /\ NoBuild
    /\ arg \in [fixtures : ListsOf(EnrichFixtures), overrides : EnrichFiles]

\* applied = apply_overrides(fixtures, overrides_path)
ApplyOverridesCall ==
    /\ fn = "none"
    /\ fn' = "apply_overrides"
    /\ ret' = apply_overrides(arg.fixtures, arg.overrides)
    /\ UNCHANGED <<arg, buildVars>>

\* stats = enrich_all(fixtures, overrides_path)
EnrichAllCall ==
    /\ fn = "none"
    /\ fn' = "enrich_all"
    /\ ret' = enrich_all(arg.fixtures, arg.overrides)
    /\ UNCHANGED <<arg, buildVars>>

EnrichNext ==
    \/ ApplyOverridesCall
    \/ EnrichAllCall

EnrichSpec == EnrichInit /\ [][EnrichNext]_vars

\* the states of two matches at two fetches: the fields diff_changes
\* projects, changed one at a time
SnapshotFixtures ==
    { F1,
      [F1 EXCEPT !.utc_kickoff = NoKickoff],
      [F1 EXCEPT !.utc_kickoff = Kick("2025-11-12", "17:30:00")],
      [F1 EXCEPT !.venue = NoneVal],
      [F1 EXCEPT !.venue = ""],
      [F1 EXCEPT !.tv = "Sky Sports"],
      [F1 EXCEPT !.status = "POSTPONED"],
      F2,
      [F2 EXCEPT !.utc_kickoff = Kick("2025-11-23", "16:30:00")] }

\* the arguments of the snapshot functions: the current fixtures, and the
\* file at path: the snapshot saved for the fixtures old, or no such file
SnapshotInputs ==
    {[fixtures |-> c, old |-> o, file |-> JsonFile(SnapshotOf(o))] :
        c \in ListsOf(SnapshotFixtures), o \in ListsOf(SnapshotFixtures)}
    \cup
    {[fixtures |-> c, old |-> <<>>, file |-> f] :
        c \in ListsOf(SnapshotFixtures),
        f \in {NoFile, UnreadableFile, TornFile, JsonFile(JsonArray)}}

SnapshotInit ==
    /\ NoBuild
    /\ arg \in SnapshotInputs

\* the file at path now
FileNow == IF fn = "none" THEN arg.file ELSE ret.file

\* save_snapshot(fixtures, path)
SaveSnapshotCall ==
    /\ fn = "none"
    /\ fn' = "save_snapshot"
    /\ \E io \in SaveOutcomes :
        LET r == save_snapshot(arg.fixtures, arg.file, io)
        IN  ret' = [file |-> r.file, exc |-> r.exc, saved |-> r.exc = "none",
                    value |-> <<>>, counts |-> NoChanges]
    /\ UNCHANGED <<arg, buildVars>>

\* snapshot = load_snapshot(path), of the file as it is or after the save
LoadSnapshotCall ==
    /\ fn \in {"none", "save_snapshot"}
    /\ fn' = "load_snapshot"
    /\ LET r == load_snapshot(FileNow)
       IN  ret' = [file |-> FileNow, exc |-> r.exc,
                   saved |-> fn = "save_snapshot" /\ ret.saved,
                   value |-> r.value, counts |-> NoChanges]
    /\ UNCHANGED <<arg, buildVars>>

\* diff_changes(fixtures, snapshot) of what load_snapshot returned
DiffChangesCall ==
    /\ fn = "load_snapshot"
    /\ ret.exc = "none"
    /\ fn' = "diff_changes"
    /\ ret' = IF diff_raises(arg.fixtures, ret.value)
              THEN [ret EXCEPT !.exc = "AttributeError"]
              ELSE [ret EXCEPT !.counts = diff_changes(arg.fixtures, ret.value)]
    /\ UNCHANGED <<arg, buildVars>>

SnapshotNext ==
    \/ SaveSnapshotCall
    \/ LoadSnapshotCall
    \/ DiffChangesCall

SnapshotSpec == SnapshotInit /\ [][SnapshotNext]_vars

\* the fixtures the filters are called with: home and away, played and not,
\* with a broadcaster, with an empty one and with none
FilterInputs == {F1, F2, F3, F4, F5}

\* the comp_code arguments of by_competition
CompCodeInputs == {NoneVal, NotAString, "", "PL", "FA", "CL"}

FilterInit ==
    /\ NoBuild
    /\ arg \in [fixtures : ListsOf(FilterInputs)]

\* Filter.apply_filters(fixtures, scheduled_only, home_only, away_only,
\* televised_only)
ApplyFiltersCall ==
    /\ fn = "none"
    /\ fn' = "apply_filters"
    /\ \E s, h, a, t \in BOOLEAN :
        ret' = [scheduled_only |-> s, home_only |-> h, away_only |-> a,
                televised_only |-> t,
                fixtures |-> apply_filters(arg.fixtures, s, h, a, t)]
    /\ UNCHANGED <<arg, buildVars>>

\* Filter.only_home(fixtures) and Filter.only_away(fixtures) of the same list
OnlyHomeAwayCall ==
    /\ fn = "none"
    /\ fn' = "only_home_away"
    /\ ret' = [home |-> only_home(arg.fixtures), away |-> only_away(arg.fixtures),
               both |-> apply_filters(arg.fixtures, FALSE, TRUE, TRUE, FALSE)]
    /\ UNCHANGED <<arg, buildVars>>

\* Filter.by_competition(fixtures, comp_code), of the fixtures or of a list
\* that also holds an object that is no Fixture
ByCompetitionCall ==
    /\ fn = "none"
    /\ fn' = "by_competition"
    /\ \E code \in CompCodeInputs, malformed \in BOOLEAN :
        LET list == IF malformed THEN Append(arg.fixtures, NotAFixture)
                    ELSE arg.fixtures
            r == by_competition(list, code)
        IN  ret' = [comp_code |-> code, malformed |-> malformed, exc |-> r.exc,
                    fixtures |-> r.fixtures]
    /\ UNCHANGED <<arg, buildVars>>

FilterNext ==
    \/ ApplyFiltersCall
    \/ OnlyHomeAwayCall
    \/ ByCompetitionCall

FilterSpec == FilterInit /\ [][FilterNext]_vars

\* an event of an ICS calendar: its UID, its DTSTART in hours from the time
\* of the comparison, and its DESCRIPTION
CalendarEvent(uid, start, description) ==
    [uid |-> uid, start |-> start, description |-> description]

\* a match to come, the same match moved to a later hour, and a match played
CalendarEvents ==
    { CalendarEvent("1@fixture-fetcher", 1, "Premier League"),
      CalendarEvent("1@fixture-fetcher", 3, "Premier League"),
      CalendarEvent("4@fixture-fetcher", -1, "Premier League") }

\* an .ics file: absent, not readable as a calendar, or a calendar
NoIcs == [exists |-> FALSE, readable |-> FALSE, events |-> {}]

BrokenIcs == [exists |-> TRUE, readable |-> FALSE, events |-> {}]

Ics(events) == [exists |-> TRUE, readable |-> TRUE, events |-> events]

IcsFiles == {NoIcs, BrokenIcs} \cup {Ics(es) : es \in SUBSET CalendarEvents}

\* a directory of calendars: a file directly in it, and a file in the
\* league/team subdirectory where build writes
CalendarDirs == [top : IcsFiles, nested : IcsFiles]

\* get_upcoming_events(ics_file): the exception class that leaves the
\* function ("none": it returns) and the set of (UID, DTSTART, DESCRIPTION)
get_upcoming_events(ics_file) ==
    IF ~ics_file.readable
    THEN [exc |-> "ICSReadError", events |-> {}]
    ELSE [exc |-> "none",
          events |-> {<<e.uid, e.start, e.description>> :
                         e \in {x \in ics_file.events : x.start > 0}}]

\* the files dir.glob("*.ics") yields: those directly in the directory
Glob(dir) == IF dir.top.exists THEN {dir.top} ELSE {}

\* the signature compare_calendars collects for one directory
Signature(dir) ==
    UNION {get_upcoming_events(f).events :
              f \in {g \in Glob(dir) : get_upcoming_events(g).exc = "none"}}

compare_calendars(old_dir, new_dir) == Signature(old_dir) # Signature(new_dir)

CompareInit ==
    /\ NoBuild
    /\ arg \in [old_dir : CalendarDirs, new_dir : CalendarDirs]

\* has_changes = CalendarComparison().compare_calendars(old_dir, new_dir)
CompareCalendarsCall ==
    /\ fn = "none"
    /\ fn' = "compare_calendars"
    /\ ret' = [has_changes |-> compare_calendars(arg.old_dir, arg.new_dir)]
    /\ UNCHANGED <<arg, buildVars>>

CompareNext == CompareCalendarsCall

CompareSpec == CompareInit /\ [][CompareNext]_vars

(* ----------------------- two builds in succession --------------------- *)

\* the flags of the two builds
RerunFlags == {<<FALSE, FALSE, FALSE, TRUE>>, <<TRUE, FALSE, FALSE, TRUE>>,
               <<FALSE, FALSE, TRUE, FALSE>>}

\* the first build of the team, with the team cache in place
RerunInit ==
    /\ Init
    /\ teamsCache = "ok"

FirstBuild ==
    /\ pc = "idle"
    /\ \E flags \in RerunFlags :
        Enter("api", BuildArgs("Manchester United FC", FALSE, flags[1], flags[2],
                               flags[3], flags[4]))

\* the competitions whose block ran to its end: save_snapshot returned
Completed ==
    {calls[k].comp : k \in {j \in DOMAIN calls : /\ calls[j].op = "save_snapshot"
                                                   /\ calls[j].exc = "none"}}

\* build is called again with the same arguments after the first call
\* returned with the team's fixtures fetched: the files are as the first
\* call left them, the locals are fresh
BuildAgain ==
    /\ pc = "done"
    /\ ~firstRun.ran
    /\ \E k \in DOMAIN calls : calls[k] = Call("fetch_fixtures", "", "none")
    /\ firstRun' = [ran |-> TRUE, fetched |-> fetched, completed |-> Completed,
                    snapshots |-> snapshots]
    /\ pc' = "mkdir"
    /\ short_name' = NoneVal
    /\ fetched' = <<>>
    /\ fixtures_by_comp' = <<>>
    /\ ci' = 1
    /\ comp_fixtures' = <<>>
    /\ prev' = <<>>
    /\ stats' = NoStats
    /\ filtered_fixtures' = <<>>
    /\ changes' = NoChanges
    /\ successful' = <<>>
    /\ failed' = <<>>
    /\ result' = NoResult
    /\ returned' = FALSE
    /\ calls' = <<>>
    /\ snapshotsBefore' = snapshots
    /\ UNCHANGED <<caller, args, disk, raised, manifest, exitCode, fn, arg, ret>>

\* the fetch of the first build
FirstFetch ==
    /\ ~firstRun.ran
    /\ FetchFixtures

\* the fetch of the second build: the provider returns the same fixtures
SameFetch ==
    /\ pc = "fetch"
    /\ firstRun.ran
    /\ LET fixtures == apply_filters(firstRun.fetched, TRUE, FALSE, FALSE, FALSE)
           groups == GroupByCompetition(fixtures)
       IN  /\ calls' = Append(calls, Call("fetch_fixtures", "", "none"))
           /\ fetched' = firstRun.fetched
           /\ fixtures_by_comp' = groups
           /\ ci' = 1
           /\ pc' = IF groups = <<>> THEN "return" ELSE "load"
           /\ failed' = failed
    /\ UNCHANGED <<caller, args, disk, short_name, compLocals, successful, outcome,
                   snapshotsBefore, unit>>

RerunNext ==
    \/ FirstBuild
    \/ BuildAgain
    \/ OutputMkdir
    \/ RefreshTeamCache
    \/ CheckTeam
    \/ LookupTeam
    \/ FirstFetch
    \/ SameFetch
    \/ LoadSnapshot
    \/ EnrichAll
    \/ FilterFixtures
    \/ WriteCalendar
    \/ Summarise
    \/ SaveSnapshot
    \/ Return

RerunSpec == RerunInit /\ [][RerunNext]_vars

(* ------------------------------ properties ---------------------------- *)

\* the positions of the calls of op in the call log
CallsOf(op) == {k \in DOMAIN calls : calls[k].op = op}

\* the positions of the calls of op for the competition c
CallsFor(op, c) == {k \in CallsOf(op) : calls[k].comp = c}

\* the positions of the calls that raised
Raising(S) == {k \in S : calls[k].exc # "none"}

\* build is over: it returned or an exception left it
BuildOver == pc \in {"done", "raised", "exited"} /\ caller # "build_calendars.py"

\* the competition codes of the groups, in the order of the loop
GroupCodes == {fixtures_by_comp[i].code : i \in DOMAIN fixtures_by_comp}

\* C1: when the processing of one competition group fails, the failure is
\* recorded and every later group of the team is still processed: in a build
\* that returned, each competition group was entered (its snapshot loaded),
\* and each group that raised nothing has its calendar written and its
\* snapshot saved.
C1_LaterGroupsStillProcessed ==
    returned =>
        \A c \in GroupCodes :
            /\ CallsFor("load_snapshot", c) # {}
            /\ (Raising(CallsFor("write", c)) = {}
                    => CallsFor("save_snapshot", c) # {})

\* C2: build never raises for a per-team or per-competition failure: once
\* the team has been looked up, whatever the lookup, the cache read, the
\* fetch or a competition's processing did, build returns its result.
C2_NeverRaisesForTeamFailure ==
    CallsOf("get_team_info") # {} => raised = "none"

\* C3: in the result of build every entry of successful is a (team,
\* competition) pair, every entry of failed is a (team, error message) pair
\* whatever the failure path, and total is the number of teams attempted.
C3_ResultShape ==
    returned =>
        /\ \A i \in DOMAIN result.successful :
              /\ result.successful[i][1] = short_name
              /\ result.successful[i][2] \in CompCodes
        /\ \A i \in DOMAIN result.failed :
              /\ result.failed[i][1] \in {args.team, short_name}
              /\ result.failed[i][2] \notin CompCodes
        /\ result.total = 1

\* the lookup of the team called by build failed
LookupFailed == Raising(CallsOf("get_team_info")) # {}

\* C4: when the team lookup fails (team not in the cache, or the cache cannot
\* be read) build records exactly one failure for the team, never calls
\* fetch_fixtures, writes no calendar and no snapshot, and returns normally.
C4_LookupFailureIsRecorded ==
    (BuildOver /\ LookupFailed) =>
        /\ returned
        /\ raised = "none"
        /\ Len(result.failed) = 1
        /\ result.failed[1][1] = args.team
        /\ result.successful = <<>>
        /\ CallsOf("fetch_fixtures") = {}
        /\ calendars = [c \in CompCodes |-> NoCalendar]
        /\ snapshots = snapshotsBefore

\* C5: fetch_fixtures is called at most once per team in one build, and when
\* it raises, build records one failure for the team, no success, and calls
\* no collaborator after it.
C5_FetchFailureNoRetry ==
    /\ Cardinality(CallsOf("fetch_fixtures")) <= 1
    /\ \A k \in Raising(CallsOf("fetch_fixtures")) :
          /\ k = Len(calls)
          /\ raised = "none"
          /\ successful = <<>>
          /\ Len(failed) = 1
          /\ failed[1][1] = short_name
          /\ failed[1][2] \notin CompCodes
          /\ pc \in {"return", "done", "exited"}
          /\ calendars = [c \in CompCodes |-> NoCalendar]
          /\ snapshots = snapshotsBefore

C5_Witness ==
    /\ returned
    /\ Raising(CallsOf("fetch_fixtures")) # {}
    /\ Len(result.failed) = 1

\* C6: build called with no team raises InvalidInputError immediately: when
\* InvalidInputError leaves build, no team was given and no team-cache
\* refresh, no team lookup and no fixture fetch happened before it.
C6_NoTeamRaisesImmediately ==
    raised = "InvalidInputError" =>
        /\ Falsy(args.team)
        /\ CallsOf("refresh_team_cache") = {}
        /\ CallsOf("get_team_info") = {}
        /\ CallsOf("fetch_fixtures") = {}

\* C7: every failure of save_snapshot leaves it as DataProcessingError, and
\* save_snapshot returns normally only if the file holds the new snapshot.
C7_SaveFailsAsDataProcessingError ==
    \A k \in CallsOf("save_snapshot") :
        /\ calls[k].exc \in {"none", "DataProcessingError"}
        /\ (k = Len(calls) /\ calls[k].exc = "none")
              => snapshots[calls[k].comp] = JsonFile(SnapshotOf(comp_fixtures))

\* the operations called for the competition c, in order
CallOrder(c) ==
    LET ForComp(x) == x.comp = c
        cs == SelectSeq(calls, ForComp)
    IN  [i \in DOMAIN cs |-> cs[i].op]

\* s is a prefix of t
IsPrefix(s, t) == Len(s) <= Len(t) /\ \A i \in DOMAIN s : s[i] = t[i]

\* the order of a competition's steps
StepOrder ==
    IF args.summarise
    THEN <<"load_snapshot", "enrich_all", "write", "diff_changes", "save_snapshot">>
    ELSE <<"load_snapshot", "enrich_all", "write", "save_snapshot">>

\* C8: for each competition group build loads the previous snapshot before
\* enrichment and overwrites the stored snapshot only as the last step, after
\* the competition's calendar was written; the snapshot of a competition
\* whose processing failed before that step, or was never reached, is the one
\* stored when build was called.
C8_SnapshotSavedLast ==
    \A c \in CompCodes :
        /\ IsPrefix(CallOrder(c), StepOrder)
        /\ \A k \in CallsFor("save_snapshot", c) :
              \E j \in CallsFor("write", c) : j < k /\ calls[j].exc = "none"
        /\ CallsFor("save_snapshot", c) = {} => snapshots[c] = snapshotsBefore[c]
        /\ (pc \in {"enrich", "filter", "write", "summarise", "save"} /\ comp_code = c)
              => /\ prev = load_snapshot(snapshotsBefore[c]).value
                 /\ snapshots[c] = snapshotsBefore[c]

C8_Witness ==
    /\ returned
    /\ Raising(CallsFor("write", "PL")) # {}
    /\ snapshotsBefore["PL"].valid
    /\ snapshots["PL"] = snapshotsBefore["PL"]
    /\ CallsFor("save_snapshot", "FA") # {}

\* the fixtures of the list L that have the id of f
Occurrences(L, f) == Cardinality({i \in DOMAIN L : L[i].id = f.id})

NotYetPlayed(L) == \A i \in DOMAIN L : L[i].status \in {"SCHEDULED", "TIMED"}

\* C9: every fixture that build groups, writes to a calendar, diffs or saves
\* into a snapshot has status SCHEDULED or TIMED, and every fetched fixture
\* with such a status is in exactly one group, the one of its
\* competition_code, while the others are in none.
C9_OnlyScheduledAreGrouped ==
    /\ \A i \in DOMAIN fixtures_by_comp :
          LET g == fixtures_by_comp[i]
          IN  /\ NotYetPlayed(g.fixtures)
              /\ \A j \in DOMAIN g.fixtures : g.fixtures[j].competition_code = g.code
              /\ \A j \in DOMAIN fixtures_by_comp :
                    fixtures_by_comp[j].code = g.code => j = i
    /\ \A k \in DOMAIN fetched :
          LET f == fetched[k]
              wanted == f.status \in {"SCHEDULED", "TIMED"}
          IN  \A i \in DOMAIN fixtures_by_comp :
                 Occurrences(fixtures_by_comp[i].fixtures, f) =
                    IF wanted /\ fixtures_by_comp[i].code = f.competition_code
                    THEN 1 ELSE 0
    /\ (fetched # <<>> /\ \E k \in DOMAIN fetched :
            fetched[k].status \in {"SCHEDULED", "TIMED"}) => fixtures_by_comp # <<>>
    /\ NotYetPlayed(comp_fixtures)
    /\ NotYetPlayed(filtered_fixtures)
    /\ \A c \in CompCodes :
          /\ NotYetPlayed(calendars[c].fixtures)
          /\ snapshots[c] # snapshotsBefore[c] =>
                \A id \in DOMAIN snapshots[c].data :
                    snapshots[c].data[id].status \in {"SCHEDULED", "TIMED"}

C9_Witness ==
    /\ returned
    /\ \E k \in DOMAIN fetched : fetched[k].status = "FINISHED"
    /\ Len(fixtures_by_comp) = 2
    /\ \A c \in GroupCodes : snapshots[c].valid /\ calendars[c].valid
    /\ snapshots["PL"] # snapshotsBefore["PL"]

\* C10: the build script exits with 0 exactly when the result's successful
\* list is non-empty and with 1 exactly when it is empty, whatever the number
\* of recorded failures and whether or not the manifest was generated.
C10_ExitCodeReflectsSuccess ==
    (pc = "exited" /\ returned) =>
        /\ exitCode \in {0, 1}
        /\ exitCode = 0 <=> result.successful # <<>>
        /\ exitCode = 1 <=> result.successful = <<>>

C10_Witness ==
    /\ pc = "exited"
    /\ returned
    /\ exitCode = 0
    /\ result.failed # <<>>
    /\ manifest = "failed"

\* the pairs of a list of build
PairsOf(list) == {list[i] : i \in DOMAIN list}

\* C25: in the result of build no (team, competition) pair is reported both
\* as successful and as failed: a competition is successful only if its whole
\* processing, the snapshot save included, completed, so that a snapshot
\* write failure leaves the pair in failed only (checked for the builds in
\* which no diff_changes raised).
C25_NeverBothSuccessfulAndFailed ==
    (returned /\ Raising(CallsOf("diff_changes")) = {}) =>
        /\ PairsOf(result.successful) \cap PairsOf(result.failed) = {}
        /\ \A k \in Raising(CallsOf("save_snapshot")) :
              <<short_name, calls[k].comp>> \notin PairsOf(result.successful)

\* the fixtures of the group of competition c, as fetched
GroupOf(c) ==
    LET i == CHOOSE j \in DOMAIN fixtures_by_comp : fixtures_by_comp[j].code = c
    IN  fixtures_by_comp[i].fixtures

\* the fixtures of competition c after enrichment
EnrichedOf(c) == enrich_all(GroupOf(c), overridesFile).fixtures

\* the last call of the log is a call of op for c that returned
JustDid(op, c) ==
    /\ calls # <<>>
    /\ calls[Len(calls)] = Call(op, c, "none")

\* C27: the flags home_only, away_only and televised_only change only which
\* fixtures are written to the calendar: the calendar holds the enriched
\* fixtures of the competition that pass the flags, while the diff counters
\* and the saved snapshot cover all of the competition's scheduled fixtures
\* after enrichment, those the flags excluded included.
C27_FlagsOnlyFilterCalendar ==
    \A c \in GroupCodes :
        /\ JustDid("write", c) =>
              calendars[c] = CalendarFile(apply_filters(EnrichedOf(c), FALSE,
                                 args.home_only, args.away_only, args.televised_only))
        /\ JustDid("diff_changes", c) => changes = diff_changes(EnrichedOf(c), prev)
        /\ JustDid("save_snapshot", c) =>
              snapshots[c] = JsonFile(SnapshotOf(EnrichedOf(c)))

C27_Witness ==
    /\ JustDid("save_snapshot", "PL")
    /\ args.home_only
    /\ Len(calendars["PL"].fixtures) = 1
    /\ Cardinality(DOMAIN snapshots["PL"].data) = 2
    /\ changes.venue = 1

\* the lookup and the fetch of the team returned
TeamFetched ==
    /\ CallsOf("get_team_info") # {}
    /\ Raising(CallsOf("get_team_info")) = {}
    /\ CallsOf("fetch_fixtures") # {}
    /\ Raising(CallsOf("fetch_fixtures")) = {}

\* C29: a team whose lookup and fetch succeed but whose fetched fixtures hold
\* none with status SCHEDULED or TIMED produces no entry in successful and no
\* entry in failed and writes no calendar and no snapshot; the build script
\* then exits with code 1 although no failure was recorded.
C29_NothingScheduledExitsOne ==
    (TeamFetched /\ \A i \in DOMAIN fetched : ~IsScheduled(fetched[i])) =>
        /\ successful = <<>>
        /\ failed = <<>>
        /\ raised = "none"
        /\ CallsOf("write") = {}
        /\ CallsOf("save_snapshot") = {}
        /\ calendars = [c \in CompCodes |-> NoCalendar]
        /\ snapshots = snapshotsBefore
        /\ returned => result = [successful |-> <<>>, failed |-> <<>>, total |-> 1]
        /\ pc = "exited" => exitCode = 1

C29_Witness ==
    /\ TeamFetched
    /\ fetched # <<>>
    /\ \A i \in DOMAIN fetched : ~IsScheduled(fetched[i])
    /\ pc = "exited"
    /\ exitCode = 1
    /\ result.failed = <<>>

\* this step calls refresh_team_cache
Refreshes ==
    /\ Len(calls') = Len(calls) + 1
    /\ calls'[Len(calls')].op = "refresh_team_cache"

\* C30: within one build call the team cache is refreshed at most once,
\* exactly when refresh_cache is set or the cache file does not exist, before
\* the team lookup and before any fixture fetch; the cache never changes but
\* by that refresh, so never after a lookup has read it.
C30_RefreshOnceBeforeLookup ==
    [][ /\ Refreshes =>
              /\ args.refresh_cache \/ teamsCache = "missing"
              /\ CallsOf("refresh_team_cache") = {}
              /\ CallsOf("get_team_info") = {}
              /\ CallsOf("fetch_fixtures") = {}
        /\ (pc = "refresh" /\ (args.refresh_cache \/ teamsCache = "missing"))
              => Refreshes
        /\ teamsCache' # teamsCache => Refreshes
        /\ pc' \in {"lookup", "fetch"} => pc \notin {"idle", "mkdir", "refresh"}
      ]_vars

C30_Witness ==
    /\ ~args.refresh_cache
    /\ CallsOf("refresh_team_cache") = {2}
    /\ teamsCache = "ok"
    /\ CallsOf("get_team_info") # {}
    /\ CallsOf("fetch_fixtures") # {}
    /\ pc = "done"

Lowest(S) == CHOOSE i \in S : \A j \in S : i <= j

Highest(S) == CHOOSE i \in S : \A j \in S : j <= i

\* apply_overrides was called and returned
Applied == fn = "apply_overrides" /\ ~ret.raised

\* the entries of the override file of the call, in file order
Entries == arg.overrides.entries

\* the tv value of the k-th entry (none for a null value)
EntryTv(k) == IF Entries[k].kind = "map" THEN Entries[k].tv ELSE NoneVal

\* the entries with a non-empty tv value
Effective == {k \in DOMAIN Entries : ~Falsy(EntryTv(k))}

InputIds == {arg.fixtures[i].id : i \in DOMAIN arg.fixtures}

\* the fixtures whose composite key is the key of the k-th entry
CompositeMatches(k) ==
    {i \in DOMAIN arg.fixtures :
        /\ arg.fixtures[i].utc_kickoff # NoKickoff
        /\ arg.fixtures[i].utc_kickoff.date \o ":" \o arg.fixtures[i].home_team
              \o ":" \o arg.fixtures[i].away_team = Entries[k].key}

\* the fixture the k-th entry is for: the one with its key as id, else the
\* first one with its key as composite key
Matched(k) ==
    IF Entries[k].key \in InputIds
    THEN {i \in DOMAIN arg.fixtures : arg.fixtures[i].id = Entries[k].key}
    ELSE IF CompositeMatches(k) # {} THEN {Lowest(CompositeMatches(k))}
    ELSE {}

\* the entries with a non-empty tv that are for the i-th fixture
Hits(i) == {k \in Effective : i \in Matched(k)}

\* C11: apply_overrides sets the tv of every fixture matched by an override
\* entry with a non-empty tv value (the last such entry decides), and the
\* count it returns is the number of such entries whose matched fixture had
\* an empty or absent tv when the entry was applied; an entry that replaces a
\* broadcaster changes the fixture and is not counted.
C11_CountsNewlyFilled ==
    Applied =>
        /\ \A i \in DOMAIN arg.fixtures :
              Hits(i) # {} => ret.fixtures[i].tv = EntryTv(Highest(Hits(i)))
        /\ ret.applied =
              Cardinality({k \in Effective :
                  \E i \in Matched(k) : /\ Falsy(arg.fixtures[i].tv)
                                        /\ k = Lowest(Hits(i))})

C11_Witness ==
    /\ Applied
    /\ ret.applied = 1
    /\ \E i, j \in DOMAIN arg.fixtures :
          /\ ~Falsy(arg.fixtures[i].tv)
          /\ ret.fixtures[i].tv # arg.fixtures[i].tv
          /\ Falsy(arg.fixtures[j].tv)
          /\ ~Falsy(ret.fixtures[j].tv)

\* C12: an entry with a non-empty tv whose key is no fixture's id sets tv on
\* the first fixture in list order that has a kickoff and whose composite key
\* is the entry's key, and on no other fixture: a tv changes only by an entry
\* keyed by the fixture's id or by such a first composite match, so a fixture
\* without kickoff is never matched by a composite key and an entry whose
\* key is a fixture id is never tried as a composite key.
C12_CompositeFirstMatch ==
    Applied =>
        /\ \A k \in Effective :
              (Entries[k].key \notin InputIds /\ CompositeMatches(k) # {}) =>
                  ret.fixtures[Lowest(CompositeMatches(k))].tv
                      \in {EntryTv(j) : j \in {h \in Effective : h >= k}}
        /\ \A i \in DOMAIN arg.fixtures :
              ret.fixtures[i].tv # arg.fixtures[i].tv =>
                  \E k \in Effective :
                      /\ ret.fixtures[i].tv = EntryTv(k)
                      /\ \/ Entries[k].key = arg.fixtures[i].id
                         \/ /\ Entries[k].key \notin InputIds
                            /\ arg.fixtures[i].utc_kickoff # NoKickoff
                            /\ CompositeMatches(k) # {}
                            /\ i = Lowest(CompositeMatches(k))

C12_Witness ==
    /\ Applied
    /\ \E k \in Effective :
          /\ Entries[k].key \notin InputIds
          /\ Cardinality(CompositeMatches(k)) = 2
          /\ ret.fixtures[Lowest(CompositeMatches(k))].tv = EntryTv(k)
          /\ ret.fixtures[Highest(CompositeMatches(k))].tv
                = arg.fixtures[Highest(CompositeMatches(k))].tv
    /\ \E i \in DOMAIN arg.fixtures : arg.fixtures[i].utc_kickoff = NoKickoff

\* C13: after apply_overrides returns, a fixture whose id is the key of an
\* override entry with a non-empty tv has exactly that entry's tv, whatever
\* other entries the file contains.
C13_IdOverrideWins ==
    Applied =>
        \A i \in DOMAIN arg.fixtures : \A k \in Effective :
            Entries[k].key = arg.fixtures[i].id => ret.fixtures[i].tv = EntryTv(k)

\* the k-th entry is inert: its value is null, has no tv key or an empty tv
Inert(k) == Entries[k].kind \in {"null", "map"} /\ Falsy(EntryTv(k))

\* the k-th entry names the i-th fixture, by id or by composite key
Names(k, i) == Entries[k].key = arg.fixtures[i].id \/ i \in CompositeMatches(k)

\* C14: apply_overrides returns 0, raises nothing and changes no fixture when
\* the overrides path is absent or names no existing file, when the file is
\* empty and when every entry is inert; and the fixtures that only inert
\* entries name are never changed.
C14_NothingApplicable ==
    fn = "apply_overrides" =>
        /\ (\/ ~arg.overrides.given
            \/ ~arg.overrides.exists
            \/ arg.overrides.mapping /\ \A k \in DOMAIN Entries : Inert(k))
              => /\ ~ret.raised
                 /\ ret.applied = 0
                 /\ ret.fixtures = arg.fixtures
        /\ \A i \in DOMAIN arg.fixtures :
              (\A k \in DOMAIN Entries : Names(k, i) => Inert(k))
                  => ret.fixtures[i] = arg.fixtures[i]

C14_Witness ==
    /\ fn = "apply_overrides"
    /\ arg.overrides.exists
    /\ Len(Entries) = MaxEntries
    /\ \A k \in DOMAIN Entries : Inert(k)
    /\ \E k \in DOMAIN Entries : \E i \in DOMAIN arg.fixtures :
          Names(k, i) /\ Falsy(arg.fixtures[i].tv)
    /\ ret.applied = 0

\* C15: apply_overrides and enrich_all change nothing but the tv of
\* fixtures: the list keeps its length and order, every other field of every
\* fixture is unchanged, a fixture that no entry names keeps its tv, and a
\* fixture with a non-empty tv before the call has a non-empty tv after it.
C15_OnlyTvChanges ==
    fn \in {"apply_overrides", "enrich_all"} =>
        /\ Len(ret.fixtures) = Len(arg.fixtures)
        /\ \A i \in DOMAIN arg.fixtures :
              /\ [ret.fixtures[i] EXCEPT !.tv = arg.fixtures[i].tv] = arg.fixtures[i]
              /\ (\A k \in DOMAIN Entries : ~Names(k, i))
                    => ret.fixtures[i].tv = arg.fixtures[i].tv
              /\ ~Falsy(arg.fixtures[i].tv) => ~Falsy(ret.fixtures[i].tv)

C15_Witness ==
    /\ fn = "enrich_all"
    /\ \E i, j \in DOMAIN arg.fixtures :
          /\ ret.fixtures[i].tv # arg.fixtures[i].tv
          /\ ~Falsy(arg.fixtures[i].tv)
          /\ \A k \in DOMAIN Entries : ~Names(k, j)
          /\ ~Falsy(arg.fixtures[j].tv)

\* C16: if the override resolver raises inside enrich_all, enrich_all
\* reports tv_overrides_applied = 0 and the enrichment is a no-op: every
\* fixture has the tv it had before the call and tv_after equals tv_before.
C16_ResolverErrorIsNoOp ==
    (fn = "enrich_all" /\ apply_overrides(arg.fixtures, arg.overrides).raised) =>
        /\ ret.stats.tv_overrides_applied = 0
        /\ \A i \in DOMAIN arg.fixtures : ret.fixtures[i].tv = arg.fixtures[i].tv
        /\ ret.stats.tv_after = ret.stats.tv_before

\* the tv values of the fixtures are absent or non-blank
FixtureTvWellFormed ==
    \A i \in DOMAIN arg.fixtures :
        arg.fixtures[i].tv = NoneVal \/ HasTv(arg.fixtures[i])

\* every value of the override file is null or a mapping, and the tv values
\* are non-blank strings
OverrideTvWellFormed ==
    \A k \in DOMAIN Entries :
        /\ Entries[k].kind # "scalar"
        /\ Entries[k].kind = "map" =>
              (Entries[k].tv = NoneVal \/ Entries[k].tv \notin {"", " "})

C17_SaveLoadDiffIsZero ==
    ((fn \in {"load_snapshot", "diff_changes"}) /\ ret.saved) =>
        /\ ret.exc = "none"
        /\ ret.counts = NoChanges

C17_Witness ==
    /\ fn = "diff_changes"
    /\ ret.saved
    /\ Len(arg.fixtures) >= 2
    /\ \E i \in DOMAIN arg.fixtures : arg.fixtures[i].utc_kickoff = NoKickoff
    /\ \E i \in DOMAIN arg.fixtures : arg.fixtures[i].utc_kickoff # NoKickoff
    /\ arg.old # <<>>
    /\ arg.file # ret.file

\* the field of the fixture f that the counter c is about, None read as empty
Projected(f, c) ==
    IF c = "time" THEN (IF f.utc_kickoff = NoKickoff THEN "" ELSE f.utc_kickoff.date
                                                    \o " " \o f.utc_kickoff.time)
    ELSE IF c = "venue" THEN OrEmpty(f.venue)
    ELSE IF c = "tv" THEN OrEmpty(f.tv)
    ELSE OrEmpty(f.status)

Counters == {"time", "venue", "tv", "status"}

\* the current fixtures whose field of counter c differs from the one of the
\* fixture with the same id that was saved
Changed(c) ==
    {i \in DOMAIN arg.fixtures :
        \E j \in DOMAIN arg.old :
            /\ arg.old[j].id = arg.fixtures[i].id
            /\ Projected(arg.old[j], c) # Projected(arg.fixtures[i], c)}

\* the diff of the current fixtures against the snapshot saved for old
DiffOfSaved ==
    /\ fn = "diff_changes"
    /\ ret.file = JsonFile(SnapshotOf(arg.old))

\* C18: for the fixtures present in the snapshot, diff_changes increments a
\* counter exactly when the corresponding projected field differs from the
\* snapshot record: each counter is the number of known fixtures whose field
\* changed, so one changed field of one fixture gives 1 for its counter and 0
\* for the other three.
C18_CountersFollowFields ==
    DiffOfSaved =>
        /\ ret.exc = "none"
        /\ \A c \in Counters : ret.counts[c] = Cardinality(Changed(c))

C18_Witness ==
    /\ DiffOfSaved
    /\ ~ret.saved
    /\ Len(arg.fixtures) = 1
    /\ Len(arg.old) = 1
    /\ [arg.old[1] EXCEPT !.venue = arg.fixtures[1].venue] = arg.fixtures[1]
    /\ ret.counts = [time |-> 0, venue |-> 1, tv |-> 0, status |-> 0]

\* the current fixtures whose id is a key of the snapshot
Known == {i \in DOMAIN arg.fixtures : arg.fixtures[i].id \in DOMAIN ret.value}

\* C19: diff_changes counts only the fixtures the snapshot knows: each
\* counter is at most the number of current fixtures whose id is a key of the
\* snapshot, so the diff against an empty snapshot is all zero.
C19_NewFixturesAreSilent ==
    (fn = "diff_changes" /\ ret.exc = "none") =>
        /\ \A c \in Counters : ret.counts[c] <= Cardinality(Known)
        /\ ret.value = <<>> => ret.counts = NoChanges

C19_Witness ==
    /\ fn = "diff_changes"
    /\ ret.exc = "none"
    /\ Cardinality(Known) = 1
    /\ Len(arg.fixtures) = 2
    /\ \E i \in DOMAIN arg.fixtures :
          i \notin Known /\ arg.fixtures[i].utc_kickoff # NoKickoff
    /\ ret.counts.venue = 1
    /\ ret.counts.time = 0

\* the file holds a JSON object
WellFormed(file) == file.exists /\ file.text /\ file.valid /\ IsMapping(file.data)

\* the file is absent or its text can be read
Readable(file) == file.exists => file.text

\* C20: load_snapshot never propagates an error and always returns a
\* mapping: for an absent file and for a file whose text is not a JSON object
\* (torn, invalid JSON, JSON that is not an object) it returns the empty
\* mapping, so that the diff_changes that follows finds no history.
C20_LoadNeverPropagates ==
    /\ (fn = "load_snapshot" /\ Readable(ret.file)) =>
          /\ ret.exc = "none"
          /\ IsMapping(ret.value)
          /\ ~WellFormed(ret.file) => ret.value = <<>>
    /\ (fn = "diff_changes" /\ Readable(ret.file) /\ ~WellFormed(ret.file)) =>
          /\ ret.exc = "none"
          /\ ret.counts = NoChanges

(* ------------------------ properties of the filters ------------------- *)

\* s is t with some elements left out, the others in t's order
RECURSIVE IsSubsequence(_, _)
IsSubsequence(s, t) ==
    IF s = <<>> THEN TRUE
    ELSE IF t = <<>> THEN FALSE
    ELSE IF Head(s) = Head(t) THEN IsSubsequence(Tail(s), Tail(t))
    ELSE IsSubsequence(s, Tail(t))

\* the fixture passes every filter whose flag is set in the call
PassesFlags(f) ==
    /\ ret.scheduled_only => f.status \in {"SCHEDULED", "TIMED"}
    /\ ret.home_only => f.is_home
    /\ ret.away_only => ~f.is_home
    /\ ret.televised_only => f.tv # NoneVal

\* C21: apply_filters is the composition of the single filters in the order
\* scheduled, home, away, televised for exactly the flags that are set: it
\* keeps, in the list's order, the fixtures that pass every requested filter;
\* with scheduled_only and home_only it equals only_home(only_scheduled(L)),
\* and with no flag set it returns the elements of L in the same order.
C21_FiltersCompose ==
    fn = "apply_filters" =>
        /\ IsSubsequence(ret.fixtures, arg.fixtures)
        /\ \A i \in DOMAIN arg.fixtures :
              PassesFlags(arg.fixtures[i])
                  <=> \E j \in DOMAIN ret.fixtures : ret.fixtures[j] = arg.fixtures[i]
        /\ (ret.scheduled_only /\ ret.home_only /\ ~ret.away_only /\ ~ret.televised_only)
              => ret.fixtures = only_home(only_scheduled(arg.fixtures))
        /\ (~ret.scheduled_only /\ ~ret.home_only /\ ~ret.away_only
                /\ ~ret.televised_only) => ret.fixtures = arg.fixtures

C21_Witness ==
    /\ fn = "apply_filters"
    /\ ret.scheduled_only /\ ret.home_only /\ ~ret.away_only /\ ~ret.televised_only
    /\ Len(arg.fixtures) = MaxFixtures
    /\ Len(ret.fixtures) = 1
    /\ \E i \in DOMAIN arg.fixtures : arg.fixtures[i].status = "FINISHED"
    /\ \E i \in DOMAIN arg.fixtures : ~arg.fixtures[i].is_home

\* C22: only_home and only_away partition a fixture list on is_home: every
\* fixture of the list is in exactly one of the two results, each result
\* keeps the list's order, and apply_filters with home_only and away_only
\* both set returns the empty list.
C22_HomeAwayPartition ==
    fn = "only_home_away" =>
        /\ IsSubsequence(ret.home, arg.fixtures)
        /\ IsSubsequence(ret.away, arg.fixtures)
        /\ Len(ret.home) + Len(ret.away) = Len(arg.fixtures)
        /\ \A i \in DOMAIN arg.fixtures :
              LET f == arg.fixtures[i]
                  inHome == \E j \in DOMAIN ret.home : ret.home[j] = f
                  inAway == \E j \in DOMAIN ret.away : ret.away[j] = f
              IN  /\ inHome <=> f.is_home
                  /\ inAway <=> ~f.is_home
        /\ ret.both = <<>>

C22_Witness ==
    /\ fn = "only_home_away"
    /\ Len(arg.fixtures) = MaxFixtures
    /\ ret.home # <<>>
    /\ ret.away # <<>>
    /\ \E i \in DOMAIN ret.home : ret.home[i].venue = NoneVal \/ ret.home[i].tv # NoneVal

\* C23: by_competition raises InvalidInputError for every code that is not a
\* non-empty string (None, a value that is no string, the empty string),
\* whatever the fixtures argument holds, and for a non-empty string code it
\* returns exactly the fixtures whose competition_code equals the code.
C23_ByCompetitionValidatesCode ==
    fn = "by_competition" =>
        IF ret.comp_code \in {NoneVal, NotAString, ""}
        THEN ret.exc = "InvalidInputError"
        ELSE ~ret.malformed =>
                /\ ret.exc = "none"
                /\ IsSubsequence(ret.fixtures, arg.fixtures)
                /\ \A i \in DOMAIN arg.fixtures :
                      (arg.fixtures[i].competition_code = ret.comp_code)
                          <=> \E j \in DOMAIN ret.fixtures :
                                  ret.fixtures[j] = arg.fixtures[i]

(* ------------------- properties of the calendar comparison ------------ *)

\* the upcoming events of all the calendars under a directory, nested or not
UpcomingUnder(dir) ==
    {<<e.uid, e.start, e.description>> :
        e \in {x \in dir.top.events \cup dir.nested.events : x.start > 0}}

\* C24: compare_calendars(old_dir, new_dir) returns True exactly when the set
\* of upcoming events (UID, start, description) of the calendars under
\* old_dir differs from that of the calendars under new_dir, the calendars
\* in nested subdirectories included; past events never affect the result.
C24_ComparesAllCalendars ==
    fn = "compare_calendars" =>
        (ret.has_changes <=> UpcomingUnder(arg.old_dir) # UpcomingUnder(arg.new_dir))

====
